---- MODULE Spec2Model ----
(***************************************************************************)
(* Model of the Cube-OS example API (src/src/lib.rs): the device handle    *)
(* ExampleStruct with its constructor new, the selector dispatch get, the  *)
(* shared full read get_all, the mutation set, and the conversion of       *)
(* ExampleError into cubeos_error::Error.                                  *)
(***************************************************************************)
EXTENDS Integers, Sequences, FiniteSets, TLC

(* ------------------------------------------------------------------ *)
(* Value domains                                                      *)
(* ------------------------------------------------------------------ *)

\* Longest text the callers of the model pass as in_str.
MaxStrLen == 2

\* Largest value of a u16 (in_no, ex_no, out_no).
U16Max == 65535

\* The characters texts are built from.
Chars == {"h", "i"}

\* A Rust String is modelled as the sequence of its characters.
RECURSIVE StrsOfLen(_)
StrsOfLen(n) ==
    IF n = 0 THEN {<<>>}
    ELSE {Append(t, c) : t \in StrsOfLen(n - 1), c \in Chars}

Strs == UNION {StrsOfLen(n) : n \in 0..MaxStrLen}

\* The u16 numbers callers pass: both ends of the range, the values of the
\* constrained profile {0,1} and values outside it.
Nos == {0, 1, 5, 7, U16Max}

\* Option<T>: None is the empty sequence, Some(x) the one-element sequence.
None == <<>>
Some(x) == <<x>>

\* Result<T, ExampleError>
Ok(v) == [ok |-> TRUE, val |-> v]
Err(k) == [ok |-> FALSE, err |-> k]

\* The unit value ()
Unit == "()"

\* enum ExampleError: its single variant.
ExampleError == {"Err"}

\* enum ExampleEnum
ExampleEnum == {"Number", "String", "Boolean", "All"}

\* struct ExampleInput
ExampleInput == [in_no : Nos, in_str : Strs, in_bool : BOOLEAN]

\* cubeos_error::Error::ServiceError(u8)
ServiceError(n) == [kind |-> "ServiceError", code |-> n % 256]

(* ------------------------------------------------------------------ *)
(* The functions of the source                                        *)
(* ------------------------------------------------------------------ *)

\* String::from(&str): a fresh String holding a copy of every character.
StringFrom(str) == [k \in 1..Len(str) |-> str[k]]

\* A conversion that follows the four-row literal table instead.
From_table(e) ==
    CASE e = "Err" -> ServiceError(1)

\* impl From<ExampleError> for Error
From(e) ==
    CASE e = "Err" -> ServiceError(0)

\* A constructor that starts the number at one.
new_one == [ex_no |-> 1, ex_str |-> <<>>, ex_bool |-> FALSE]

\* ExampleStruct::new
new == [ex_no |-> 0, ex_str |-> <<>>, ex_bool |-> FALSE]

\* A full read that answers with the defaults instead of the fields.
get_all_default(self) ==
    Ok([out_no   |-> Some(0),
        out_str  |-> Some(<<>>),
        out_bool |-> Some(FALSE)])

\* ExampleStruct::get_all
get_all(self) ==
    Ok([out_no   |-> Some(self.ex_no),
        out_str  |-> Some(StringFrom(self.ex_str)),
        out_bool |-> Some(self.ex_bool)])

\* A dispatch that fills the fields not asked for with zero values.
get_zero(self, g) ==
    CASE g = "Number"  -> Ok([out_no   |-> Some(self.ex_no),
                              out_str  |-> Some(<<>>),
                              out_bool |-> Some(FALSE)])
      [] g = "String"  -> Ok([out_no   |-> Some(0),
                              out_str  |-> Some(StringFrom(self.ex_str)),
                              out_bool |-> Some(FALSE)])
      [] g = "Boolean" -> Ok([out_no   |-> Some(0),
                              out_str  |-> Some(<<>>),
                              out_bool |-> Some(self.ex_bool)])
      [] g = "All"     -> get_all(self)

\* A dispatch that fails on the full read.
get_fail(self, g) ==
    CASE g = "Number"  -> Ok([out_no   |-> Some(self.ex_no),
                              out_str  |-> None,
                              out_bool |-> None])
      [] g = "String"  -> Ok([out_no   |-> None,
                              out_str  |-> Some(StringFrom(self.ex_str)),
                              out_bool |-> None])
      [] g = "Boolean" -> Ok([out_no   |-> None,
                              out_str  |-> None,
                              out_bool |-> Some(self.ex_bool)])
      [] g = "All"     -> Err("Err")

\* A dispatch whose single-field arms read something else than the field.
get_drift(self, g) ==
    CASE g = "Number"  -> Ok([out_no   |-> Some((self.ex_no + 1) % (U16Max + 1)),
                              out_str  |-> None,
                              out_bool |-> None])
      [] g = "String"  -> Ok([out_no   |-> None,
                              out_str  |-> Some(<<>>),
                              out_bool |-> None])
      [] g = "Boolean" -> Ok([out_no   |-> None,
                              out_str  |-> None,
                              out_bool |-> Some(~self.ex_bool)])
      [] g = "All"     -> get_all(self)

\* ExampleStruct::get
get(self, g) ==
    CASE g = "Number"  -> Ok([out_no   |-> Some(self.ex_no),
                              out_str  |-> None,
                              out_bool |-> None])
      [] g = "String"  -> Ok([out_no   |-> None,
                              out_str  |-> Some(StringFrom(self.ex_str)),
                              out_bool |-> None])
      [] g = "Boolean" -> Ok([out_no   |-> None,
                              out_str  |-> None,
                              out_bool |-> Some(self.ex_bool)])
      [] g = "All"     -> get_all(self)

\* A set of the constrained profile: the number must be 0 or 1.
set_constrained(self, s) ==
    IF s.in_no \in {0, 1}
    THEN [self |-> [ex_no |-> s.in_no, ex_str |-> s.in_str, ex_bool |-> s.in_bool],
          ret  |-> Ok(Unit)]
    ELSE [self |-> self, ret |-> Err("Err")]

\* A set that adds the number to the stored one instead of overwriting it.
set_accumulate(self, s) ==
    [self |-> [ex_no   |-> (self.ex_no + s.in_no) % (U16Max + 1),
               ex_str  |-> s.in_str,
               ex_bool |-> s.in_bool],
     ret  |-> Ok(Unit)]

\* A set that forgets to write the flag.
set_partial(self, s) ==
    [self |-> [ex_no   |-> s.in_no,
               ex_str  |-> s.in_str,
               ex_bool |-> self.ex_bool],
     ret  |-> Ok(Unit)]

\* ExampleStruct::set: the handle after the call and the value returned.
set(self, s) ==
    [self |-> [ex_no   |-> s.in_no,
               ex_str  |-> s.in_str,
               ex_bool |-> s.in_bool],
     ret  |-> Ok(Unit)]

(* ------------------------------------------------------------------ *)
(* The state machine: one handle and its callers                      *)
(* ------------------------------------------------------------------ *)

VARIABLES
    ex_no,      \* ExampleStruct.ex_no
    ex_str,     \* ExampleStruct.ex_str
    ex_bool,    \* ExampleStruct.ex_bool
    op,         \* the last call: "new", "get", "set" or "from"
    arg,        \* the argument of the last call
    ret,        \* the value the last call returned
    pre,        \* the fields of the handle when the last call began
    last_in,    \* the input of the most recent set, None before the first
    again       \* the last call is a set that repeats the set before it

vars == <<ex_no, ex_str, ex_bool, op, arg, ret, pre, last_in, again>>

\* The handle as the record the methods receive as self.
Self == [ex_no |-> ex_no, ex_str |-> ex_str, ex_bool |-> ex_bool]

Init ==
    /\ ex_no = new.ex_no
    /\ ex_str = new.ex_str
    /\ ex_bool = new.ex_bool
    /\ op = "new"
    /\ arg = Unit
    /\ ret = new
    /\ pre = new
    /\ last_in = None
    /\ again = FALSE

\* A call of get that also resets the handle.
CallGet_reset(g) ==
    /\ op' = "get"
    /\ arg' = g
    /\ ret' = get(Self, g)
    /\ pre' = Self
    /\ ex_no' = 0
    /\ ex_str' = <<>>
    /\ ex_bool' = FALSE
    /\ again' = FALSE
    /\ UNCHANGED last_in

\* A caller invokes get(&self, g).
CallGet(g) ==
    /\ op' = "get"
    /\ arg' = g
    /\ ret' = get(Self, g)
    /\ pre' = Self
    /\ again' = FALSE
    /\ UNCHANGED <<ex_no, ex_str, ex_bool, last_in>>

\* A caller invokes set(&mut self, s).
CallSet(s) ==
    LET r == set(Self, s) IN
    /\ op' = "set"
    /\ arg' = s
    /\ ret' = r.ret
    /\ pre' = Self
    /\ ex_no' = r.self.ex_no
    /\ ex_str' = r.self.ex_str
    /\ ex_bool' = r.self.ex_bool
    /\ last_in' = IF r.ret.ok THEN Some(s) ELSE last_in
    /\ again' = (op = "set" /\ arg = s)

\* The service converts an ExampleError into the error reported to ground.
CallFrom(e) ==
    /\ op' = "from"
    /\ arg' = e
    /\ ret' = From(e)
    /\ pre' = Self
    /\ again' = FALSE
    /\ UNCHANGED <<ex_no, ex_str, ex_bool, last_in>>

Next ==
    \/ \E g \in ExampleEnum : CallGet(g)
    \/ \E s \in ExampleInput : CallSet(s)
    \/ \E e \in ExampleError : CallFrom(e)

Spec == Init /\ [][Next]_vars

(* ------------------------------------------------------------------ *)
(* Properties                                                         *)
(* ------------------------------------------------------------------ *)

\* The fields of the handle that an input s asks for.
FieldsOf(s) == [ex_no |-> s.in_no, ex_str |-> s.in_str, ex_bool |-> s.in_bool]

\* The zero-valued defaults.
Defaults == [ex_no |-> 0, ex_str |-> <<>>, ex_bool |-> FALSE]

\* What the handle must hold: the most recent set's input, else the defaults.
Expected == IF last_in = None THEN Defaults ELSE FieldsOf(last_in[1])

\* The input of scenario B: {number: 7, text: "hi", flag: true}.
ScenarioB == [in_no |-> 7, in_str |-> <<"h", "i">>, in_bool |-> TRUE]

\* C1: whenever get(g) has returned, it returned Ok with exactly the fields
\* g implies present (Number -> out_no, String -> out_str, Boolean ->
\* out_bool, All -> all three) and every other field None.
C1_GetFieldsBySelector ==
    op = "get" =>
        /\ ret.ok
        /\ (ret.val.out_no # None) <=> (arg \in {"Number", "All"})
        /\ (ret.val.out_str # None) <=> (arg \in {"String", "All"})
        /\ (ret.val.out_bool # None) <=> (arg \in {"Boolean", "All"})
        /\ Len(ret.val.out_no) <= 1
        /\ Len(ret.val.out_str) <= 1
        /\ Len(ret.val.out_bool) <= 1

\* C1 witness: get(Number) returned on a handle whose text and flag are not
\* zero-valued, and the two fields not asked for are absent.
C1_Witness ==
    /\ op = "get"
    /\ arg = "Number"
    /\ ex_str # <<>>
    /\ ex_bool
    /\ ret.val.out_str = None
    /\ ret.val.out_bool = None

\* C2: a get(All) that follows a set(i), directly or with only reads and
\* conversions in between, returns all three fields present and equal to
\* the fields of i.
C2_SetThenGetAll ==
    (op = "get" /\ arg = "All" /\ last_in # None) =>
        ret = Ok([out_no   |-> Some(last_in[1].in_no),
                  out_str  |-> Some(last_in[1].in_str),
                  out_bool |-> Some(last_in[1].in_bool)])

\* C2 witness: get(All) returned after set of the scenario B input.
C2_Witness ==
    /\ op = "get"
    /\ arg = "All"
    /\ last_in = Some(ScenarioB)
    /\ ret.val.out_str = Some(<<"h", "i">>)

\* The literal codes of the four-row table.
PublishedCode ==
    ("None" :> 0) @@ ("Err" :> 1) @@ ("SetErr" :> 2) @@ ("I2CSet" :> 3)

\* C3 as stated: every conversion yields the code of the four-row table,
\* so Err converts to ServiceError(1).
C3_PublishedTable ==
    op = "from" => ret = ServiceError(PublishedCode[arg])

\* C3 amended: the taxonomy has the single kind Err; the conversion is
\* defined on every kind and Err converts to ServiceError(0).
C3_ErrIsCodeZero ==
    /\ ExampleError = {"Err"}
    /\ \A e \in ExampleError : From(e).kind = "ServiceError"
    /\ op = "from" => (arg = "Err" /\ ret = ServiceError(0))

\* C3 witness: the kind Err has been converted.
C3_Witness ==
    /\ op = "from"
    /\ arg = "Err"
    /\ ret.kind = "ServiceError"

\* C4 as stated: a set whose number is outside {0,1} is rejected with an
\* error and leaves the handle as it was.
C4_RejectsOutOfDomain ==
    (op = "set" /\ arg.in_no \notin {0, 1}) =>
        /\ ~ret.ok
        /\ ret.err = "SetErr"
        /\ Self = pre

\* C4 amended: a set whose number is outside {0,1} is accepted: it returns
\* Ok(()), the handle holds the input afterwards, and the taxonomy has no
\* SetErr kind.
C4_AcceptsOutOfDomain ==
    /\ "SetErr" \notin ExampleError
    /\ (op = "set" /\ arg.in_no \notin {0, 1}) =>
           /\ ret = Ok(Unit)
           /\ Self = FieldsOf(arg)

\* C4 witness: set with number 5 returned on a handle whose number was in
\* {0,1}, and the number is 5 now.
C4_Witness ==
    /\ op = "set"
    /\ arg.in_no = 5
    /\ pre.ex_no \in {0, 1}
    /\ ex_no = 5

\* C5: new() yields the zero-valued defaults, and a get(All) with no set
\* before it returns {Some(0), Some(""), Some(false)}.
C5_NewThenGetAll ==
    /\ op = "new" => (ret = Defaults /\ Self = Defaults)
    /\ (op = "get" /\ arg = "All" /\ last_in = None) =>
           ret = Ok([out_no   |-> Some(0),
                     out_str  |-> Some(<<>>),
                     out_bool |-> Some(FALSE)])

\* C5 witness: get(All) returned on a handle no set was called on.
C5_Witness ==
    /\ op = "get"
    /\ arg = "All"
    /\ last_in = None
    /\ ret.ok

\* C6: when set(i) is called directly after set(i), the handle after the
\* second call equals the handle after the first.
C6_SetIdempotent ==
    (op = "set" /\ again) => Self = pre

\* C6 witness: the scenario B input was set twice in a row.
C6_Witness ==
    /\ op = "set"
    /\ again
    /\ arg = ScenarioB
    /\ ex_no = 7

\* C7: in every reachable state get returns Ok for every selector and set
\* returns Ok(()) for every input, and no call of get or set has returned
\* an error.
C7_NeverFails ==
    /\ \A g \in ExampleEnum : get(Self, g).ok
    /\ \A s \in ExampleInput : set(Self, s).ret = Ok(Unit)
    /\ op \in {"get", "set"} => ret.ok

\* C7 witness: set with the largest u16 returned Ok(()).
C7_Witness ==
    /\ op = "set"
    /\ arg.in_no = U16Max
    /\ ret = Ok(Unit)
    /\ ex_no = U16Max

\* C8: a get with a single-field selector returns that field of the most
\* recent set (the default before the first set) and nothing else, and the
\* field equals the one get_all returns in the same state.
C8_SingleFieldAgreesWithAll ==
    /\ (op = "get" /\ arg = "Number") =>
           /\ ret = Ok([out_no |-> Some(Expected.ex_no),
                        out_str |-> None, out_bool |-> None])
           /\ ret.val.out_no = get_all(Self).val.out_no
    /\ (op = "get" /\ arg = "String") =>
           /\ ret = Ok([out_no |-> None,
                        out_str |-> Some(Expected.ex_str), out_bool |-> None])
           /\ ret.val.out_str = get_all(Self).val.out_str
    /\ (op = "get" /\ arg = "Boolean") =>
           /\ ret = Ok([out_no |-> None, out_str |-> None,
                        out_bool |-> Some(Expected.ex_bool)])
           /\ ret.val.out_bool = get_all(Self).val.out_bool

\* C8 witness: scenario B, get(Number) after set({7, "hi", true}) returned
\* {Some(7), None, None}.
C8_Witness ==
    /\ op = "get"
    /\ arg = "Number"
    /\ last_in = Some(ScenarioB)
    /\ ret = Ok([out_no |-> Some(7), out_str |-> None, out_bool |-> None])

\* C9: a step that is a get leaves ex_no, ex_str and ex_bool as they were,
\* and every step that changes one of them is a set.
C9_GetIsPure ==
    [][ /\ op' = "get" => UNCHANGED <<ex_no, ex_str, ex_bool>>
        /\ <<ex_no, ex_str, ex_bool>>' # <<ex_no, ex_str, ex_bool>> => op' = "set"
      ]_vars

\* C9 witness: a get returned on a handle that holds non-default values in
\* all three fields, which are still there.
C9_Witness ==
    /\ op = "get"
    /\ Self = pre
    /\ ex_no # 0
    /\ ex_str # <<>>
    /\ ex_bool

\* C10: between calls the handle holds either the defaults, when no set
\* has happened, or exactly the three fields of the most recent set.
C10_SetIsAtomic ==
    Self = Expected

\* C10 witness: a set returned that changed all three fields of a handle an
\* earlier set had written.
C10_Witness ==
    /\ op = "set"
    /\ pre # Defaults
    /\ pre.ex_no # ex_no
    /\ pre.ex_str # ex_str
    /\ pre.ex_bool # ex_bool

====
